---- MODULE Spec2Model ----
(***************************************************************************)
(* Wind-map particle engine: the field synthesizer (generateMockWindData), *)
(* the nearest-sample scan, the three particle advance operations (canvas  *)
(* updateParticles, WindParticleLayer.updateParticles, updateWindParticles)*)
(* and the GPU layer's particle-state ping-pong.                           *)
(*                                                                         *)
(* Numbers.  The code computes on IEEE doubles.  The model computes on     *)
(* integers:                                                               *)
(*  - grid coordinates of the synthesizer are exact rationals, kept as a   *)
(*    numerator over the common denominator |effectiveDensity| (field      *)
(*    "scale"); a division by zero yields +Infinity, -Infinity or NaN as   *)
(*    in JavaScript;                                                       *)
(*  - particle positions live on an integer lattice (one unit = one pixel  *)
(*    on screen, one degree on the ground); a wind direction is one of the *)
(*    four axis headings, so that cos and sin are exact, and the per-frame *)
(*    displacement cos(direction) * speed * stepScale is an integer number *)
(*    of lattice units (the variant's step scale and spawn multiplier are  *)
(*    folded into the speed unit);                                         *)
(*  - Math.random() is 0 or one half.                                      *)
(***************************************************************************)
EXTENDS Integers, Sequences, FiniteSets, TLC

VARIABLES
  gen,        \* generateMockWindData: its arguments, loop variables and result
  scan,       \* nearest-sample scan: field, query point and selected index
  variant,    \* which advance operation this behaviour exercises
  map,        \* canvas/exported: the map (present flag and current view)
  canvas,     \* canvas/exported: drawing-surface size [width, height]
  props,      \* instanced layer: this.props (bounds, animate, particleCount)
  windData,   \* the wind field the advance operation reads
  particles,  \* the population
  outcome,    \* how the last advance call ended: "none", "returned", "threw"
  recycled,   \* per slot: was the slot recycled by the last advance call
  marked,     \* per slot: did the last call only mark the slot (age = maxAge)
  deadline,   \* per slot: frames left in which the slot must be recycled
  frame,      \* number of advance calls made
  gpu,        \* WebGLWindLayer: texture fields, bindings and pass record
  spawn,      \* createWindParticles: its arguments, loop variables and result
  host        \* the hosting component: its life cycle and its frame loop

vars == <<gen, scan, variant, map, canvas, props, windData, particles,
          outcome, recycled, marked, deadline, frame, gpu, spawn, host>>

partVars == <<variant, map, canvas, props, windData, particles,
              outcome, recycled, marked, deadline, frame>>

-----------------------------------------------------------------------------
(* Bounds of the model *)

MaxParticles == 1
MaxFrames == 3
MaxRows == 40
MaxPasses == 4
MaxUpdates == 2
MaxCount == 2
\* Density passed to the synthesizer for the fields of the particle variants
\* (the code passes 15, 20 or 25).
ModelDensity == 1

-----------------------------------------------------------------------------
(* Arithmetic helpers *)

Abs(n) == IF n < 0 THEN -n ELSE n
Sgn(n) == IF n < 0 THEN -1 ELSE IF n > 0 THEN 1 ELSE 0
Min2(a, b) == IF a < b THEN a ELSE b
Max2(a, b) == IF a > b THEN a ELSE b

\* A double: a finite value (numerator n over the run's scale) or a special.
Fin(n) == [k |-> "fin", n |-> n]
PosInf == [k |-> "+inf", n |-> 0]
NegInf == [k |-> "-inf", n |-> 0]
NaN == [k |-> "nan", n |-> 0]

\* diff / d in JavaScript, as a step in numerator units of scale |d|.
Quot(diff, d) ==
  IF d # 0 THEN Fin(diff * Sgn(d))
  ELSE IF diff > 0 THEN PosInf
  ELSE IF diff < 0 THEN NegInf
  ELSE NaN

\* v + step for a finite or special v.
Plus(v, step) ==
  IF v.k = "nan" \/ step.k = "nan" THEN NaN
  ELSE IF v.k = "fin" /\ step.k = "fin" THEN Fin(v.n + step.n)
  ELSE IF v.k = "fin" THEN step
  ELSE IF step.k = "fin" \/ step.k = v.k THEN v
  ELSE NaN

\* v <= bound, bound finite with numerator b.
Leq(v, b) ==
  CASE v.k = "fin" -> v.n <= b
    [] v.k = "-inf" -> TRUE
    [] OTHER -> FALSE

-----------------------------------------------------------------------------
(* Field synthesizer: generateMockWindData *)

safetyLimit == 500
maxDensity == 30
northLatitude == 14

effectiveDensity(density) == Min2(density, maxDensity)

\* Common denominator of the grid coordinates of one run.
Scale(density) ==
  IF effectiveDensity(density) = 0 THEN 1 ELSE Abs(effectiveDensity(density))

\* Direction of the sample at (lonN, latN)/scale.  The code mixes sines and
\* cosines of the coordinates around pi/2 (northern regime) or pi/4
\* (southern regime); the model keeps the two regimes and quantises the
\* heading to an axis: 0 = east, 1 = pi/2, 2 = pi, 3 = 3pi/2.
sampleDirection(lonN, latN, scale) ==
  IF latN > northLatitude * scale
    THEN 1
    ELSE ((lonN + latN) \div scale) % 3

\* Speed of the sample, quantised: the northern regime varies less than the
\* southern one.
sampleSpeed(lonN, latN, scale) ==
  IF latN > northLatitude * scale
    THEN 1
    ELSE 1 + ((lonN \div scale) % 2)

WindPoint(lonN, latN, scale) ==
  [position |-> <<lonN, latN>>, scale |-> scale,
   direction |-> sampleDirection(lonN, latN, scale),
   speed |-> sampleSpeed(lonN, latN, scale)]

\* The safety-limit test at the head of the loop body, with a variant that
\* lets one more sample through.
LimitReachedLate(pointCount) == pointCount > safetyLimit

LimitReached(pointCount) == pointCount >= safetyLimit

\* State of a call right after the declarations, before the outer loop test.
GenStart(bounds, density) ==
  [pc |-> "outer", bounds |-> bounds, density |-> density,
   lonStep |-> Quot(bounds.east - bounds.west, effectiveDensity(density)),
   latStep |-> Quot(bounds.north - bounds.south, effectiveDensity(density)),
   lat |-> Fin(bounds.south * Scale(density)),
   lon |-> Fin(bounds.west * Scale(density)),
   pointCount |-> 0, rows |-> 0, windData |-> <<>>]

\* One loop test of generateMockWindData together with the body it guards.
GenStep(g) ==
  LET s == Scale(g.density) IN
  IF g.pc = "outer" THEN
    IF Leq(g.lat, g.bounds.north * s)
      THEN [g EXCEPT !.pc = "inner", !.lon = Fin(g.bounds.west * s)]
      ELSE [g EXCEPT !.pc = "done"]
  ELSE IF g.pc = "inner" THEN
    IF Leq(g.lon, g.bounds.east * s)
      THEN IF LimitReached(g.pointCount)
             THEN [g EXCEPT !.pc = "done"]
             ELSE [g EXCEPT
                     !.windData = Append(@, WindPoint(g.lon.n, g.lat.n, s)),
                     !.pointCount = @ + 1,
                     !.lon = Plus(@, g.lonStep)]
      ELSE [g EXCEPT !.pc = "outer", !.lat = Plus(@, g.latStep),
                     !.rows = IF Plus(g.lat, g.latStep) = g.lat
                                THEN @ ELSE @ + 1]
  ELSE g

GenIdle == [pc |-> "idle"]

Box(w, s, e, n) == [west |-> w, south |-> s, east |-> e, north |-> n]

\* Argument values of the synthesizer: proper, zero-size and inverted boxes
\* on either side of the regime boundary; densities below, at and above the
\* cap, zero and negative.
GenBoundsInputs ==
  { Box(10, s, 10 + de, s + dn) :
      s \in {5, 13}, de \in {-1, 0, 2}, dn \in {-1, 0, 2} }
GenDensityInputs == {-1, 0, 1, 15, 22, 30, 31}

GenInit ==
  /\ gen \in { GenStart(b, d) : b \in GenBoundsInputs, d \in GenDensityInputs }
  /\ scan = [pc |-> "idle"]
  /\ variant = "none"
  /\ map = [present |-> FALSE]
  /\ canvas = [width |-> 0, height |-> 0]
  /\ props = [animate |-> FALSE]
  /\ windData = <<>>
  /\ particles = <<>>
  /\ outcome = "none"
  /\ recycled = <<>>
  /\ marked = <<>>
  /\ deadline = <<>>
  /\ frame = 0
  /\ gpu = [pc |-> "idle"]
  /\ spawn = [pc |-> "idle"]
  /\ host = [pc |-> "idle"]

\* The outer loop test (and, when it fails, the return after the loops).
GenOuter ==
  /\ gen.pc = "outer"
  /\ gen.rows < MaxRows
  /\ gen' = GenStep(gen)
  /\ UNCHANGED <<scan, partVars, gpu, spawn, host>>

\* The inner loop test, the safety-limit return and the loop body.
GenInner ==
  /\ gen.pc = "inner"
  /\ gen' = GenStep(gen)
  /\ UNCHANGED <<scan, partVars, gpu, spawn, host>>

GenNext == GenOuter \/ GenInner

SpecGen == GenInit /\ [][GenNext]_vars

\* The call keeps running until it returns.
SpecGenLive == GenInit /\ [][GenNext]_vars /\ WF_vars(GenNext)

\* C26 as claimed: generateMockWindData returns for every bounds (equal and
\* inverted edges included) and every density (zero and negative included).
C26_GenTerminates == <>(gen.pc = "done")

\* C6: whatever the bounds and the density, the field generateMockWindData
\* returns holds at most safetyLimit (500) samples.
C6_FieldCap == gen.pc = "done" => Len(gen.windData) <= safetyLimit

\* A call with a density above the cap that returned through the safety limit.
C6_Witness ==
  /\ gen.pc = "done"
  /\ gen.density > maxDensity
  /\ Len(gen.windData) = safetyLimit

\* C7 as claimed: for zero-size bounds the returned field is empty or holds
\* exactly one sample.
C7_ZeroSizeAtMostOne ==
  (/\ gen.pc = "done"
   /\ gen.bounds.west = gen.bounds.east
   /\ gen.bounds.south = gen.bounds.north)
    => Len(gen.windData) <= 1

-----------------------------------------------------------------------------
(* Nearest-sample scan (createWindParticles, updateParticles, generateParticles) *)

MaxField == 3

\* Squared distance between a sample and the point (lng, lat), in units of
\* the sample's scale (the same for every sample of a field).
Distance2(point, lng, lat) ==
  LET dx == point.position[1] - lng * point.scale
      dy == point.position[2] - lat * point.scale
  IN  dx * dx + dy * dy

\* The comparison of the scan, with a variant that also replaces on a tie.
CloserOrEqual(distance, minDistance) ==
  minDistance.k = "max" \/ distance <= minDistance.n

\* distance < minDistance, minDistance starting at Number.MAX_VALUE.
Closer(distance, minDistance) ==
  minDistance.k = "max" \/ distance < minDistance.n

\* Scan state before the loop: closestWindPoint = windData[0] (index 1 here,
\* 0 standing for undefined when the field is empty), minDistance = MAX_VALUE.
ScanStart(field) ==
  [index |-> IF Len(field) = 0 THEN 0 ELSE 1, minDistance |-> [k |-> "max", n |-> 0]]

RECURSIVE ScanFrom(_, _, _, _, _)
ScanFrom(field, lng, lat, i, acc) ==
  IF i > Len(field) THEN acc
  ELSE LET distance == Distance2(field[i], lng, lat) IN
       ScanFrom(field, lng, lat, i + 1,
                IF Closer(distance, acc.minDistance)
                  THEN [index |-> i, minDistance |-> Fin(distance)]
                  ELSE acc)

\* Index of the sample the scan selects (0: undefined, empty field).
ClosestWindPoint(field, lng, lat) ==
  ScanFrom(field, lng, lat, 1, ScanStart(field)).index

ScanLattice == { <<x, y>> : x \in 10..12, y \in 13..14 }

RECURSIVE FieldsOfLength(_)
FieldsOfLength(n) ==
  IF n = 0 THEN { <<>> }
  ELSE { Append(f, WindPoint(p[1], p[2], 1)) :
           f \in FieldsOfLength(n - 1), p \in ScanLattice }

ScanInit ==
  /\ \E n \in 1..MaxField : \E f \in FieldsOfLength(n) : \E q \in ScanLattice :
       scan = [pc |-> "ready", field |-> f, lng |-> q[1], lat |-> q[2],
               closest |-> 0]
  /\ gen = GenIdle
  /\ variant = "none"
  /\ map = [present |-> FALSE]
  /\ canvas = [width |-> 0, height |-> 0]
  /\ props = [animate |-> FALSE]
  /\ windData = <<>>
  /\ particles = <<>>
  /\ outcome = "none"
  /\ recycled = <<>>
  /\ marked = <<>>
  /\ deadline = <<>>
  /\ frame = 0
  /\ gpu = [pc |-> "idle"]
  /\ spawn = [pc |-> "idle"]
  /\ host = [pc |-> "idle"]

\* The scan loop run to its end on the chosen field and query point.
ScanRun ==
  /\ scan.pc = "ready"
  /\ scan' = [scan EXCEPT !.pc = "done",
                !.closest = ClosestWindPoint(scan.field, scan.lng, scan.lat)]
  /\ UNCHANGED <<gen, partVars, gpu, spawn, host>>

ScanNext == ScanRun

SpecNearest == ScanInit /\ [][ScanNext]_vars

\* C8: the scan selects the first sample, in field order, whose squared
\* distance to the query point is minimal over the field; a query point at a
\* sample's position selects a sample at that position.
C8_NearestFirstMinimum ==
  scan.pc = "done" =>
    LET d(i) == Distance2(scan.field[i], scan.lng, scan.lat)
        k == scan.closest
    IN  /\ k \in 1..Len(scan.field)
        /\ \A i \in 1..Len(scan.field) : d(k) <= d(i)
        /\ \A i \in 1..(k - 1) : d(i) > d(k)
        /\ (\E i \in 1..Len(scan.field) : d(i) = 0) => d(k) = 0

\* A finished scan of a field in which a later sample ties with the selected
\* one, and the minimum is not at the first sample.
C8_Witness ==
  /\ scan.pc = "done"
  /\ scan.closest > 1
  /\ \E i \in (scan.closest + 1)..Len(scan.field) :
       Distance2(scan.field[i], scan.lng, scan.lat)
         = Distance2(scan.field[scan.closest], scan.lng, scan.lat)

-----------------------------------------------------------------------------
(* Particles: shared pieces *)

\* cos and sin of an axis heading.
Cos(direction) == CASE direction = 0 -> 1 [] direction = 2 -> -1 [] OTHER -> 0
Sin(direction) == CASE direction = 1 -> 1 [] direction = 3 -> -1 [] OTHER -> 0

\* Math.random() * n on the lattice, truncated toward zero: the draw is 0
\* or one half.
RandomBelow(n) == { 0, Sgn(n) * (Abs(n) \div 2) }

\* west + Math.random() * (east - west)
RandomBetween(a, b) == { a + r : r \in RandomBelow(b - a) }

\* Lifetimes a spawn or a recycle can draw.  The code draws 60 + random * 60
\* (canvas) or 50 + random * 50 (layer, exported) frames; the model keeps two
\* short lifetimes so that a whole life fits in a few frames.
NewMaxAges == { 2, 3 }

RECURSIVE GenRun(_)
GenRun(g) == IF g.pc = "done" THEN g ELSE GenRun(GenStep(g))

\* generateMockWindData(bounds, density), for arguments on which it returns.
generateMockWindData(bounds, density) ==
  GenRun(GenStart(bounds, density)).windData

\* All ways to pick one element from each set of a sequence of sets.
RECURSIVE Choices(_)
Choices(sets) ==
  IF Len(sets) = 0 THEN { <<>> }
  ELSE { <<h>> \o t : h \in Head(sets), t \in Choices(Tail(sets)) }

\* Sequences of at most n elements of a set.
RECURSIVE SeqsUpTo(_, _)
SeqsUpTo(S, n) ==
  IF n = 0 THEN { <<>> }
  ELSE SeqsUpTo(S, n - 1)
         \cup { Append(q, e) : q \in { t \in SeqsUpTo(S, n - 1) : Len(t) = n - 1 },
                               e \in S }

\* particles.map(...): one result per slot, with a variant that drops the
\* slots whose particle ended its life.
PopulateDroppingExpired(outs) ==
  LET kept == SelectSeq(outs, LAMBDA o : ~o.recycled)
  IN  [i \in 1..Len(kept) |-> kept[i].p]

Populate(outs) == [i \in 1..Len(outs) |-> outs[i].p]

Flags(outs, field) ==
  [i \in 1..Len(outs) |->
     IF field = "recycled" THEN outs[i].recycled ELSE outs[i].marked]

\* Frames left for each slot after a call that advanced the population.
NextDeadline(outs) ==
  [i \in 1..Len(outs) |->
     IF outs[i].recycled THEN outs[i].p.maxAge - outs[i].p.age
     ELSE deadline[i] - 1]

NoFlags(ps) == [i \in 1..Len(ps) |-> FALSE]
FreshDeadline(ps) == [i \in 1..Len(ps) |-> ps[i].maxAge - ps[i].age]

Outcome(p, isRecycled, isMarked) ==
  [p |-> p, recycled |-> isRecycled, marked |-> isMarked]

-----------------------------------------------------------------------------
(* Canvas variant: map.tsx *)

SEA_WEST == 92
SEA_SOUTH == -11
SEA_EAST == 141
\* SOUTHEAST_ASIA_BOUNDS.north is 28.5: kept doubled.
SEA_NORTH_X2 == 57
screenMargin == 20
maxAttempts == 10

isInSoutheastAsia(lng, lat) ==
  /\ lng >= SEA_WEST
  /\ lng <= SEA_EAST
  /\ lat >= SEA_SOUTH
  /\ 2 * lat <= SEA_NORTH_X2

\* map.unproject([x, y]) and map.project([lng, lat]) when they succeed: the
\* view puts longitude map.west at x = 0 and latitude map.north at y = 0.
Unproject(x, y) == [lng |-> map.west + x, lat |-> map.north - y]
Project(lng, lat) == [x |-> lng - map.west, y |-> map.north - lat]

\* The particle built at a spawn or recycle from the nearest sample.
CanvasParticle(field, x, y, lng, lat, age, maxAge) ==
  LET closestWindPoint == field[ClosestWindPoint(field, lng, lat)] IN
  [x |-> x, y |-> y, lng |-> lng, lat |-> lat, age |-> age, maxAge |-> maxAge,
   speed |-> closestWindPoint.speed, direction |-> closestWindPoint.direction]

\* Particles one accepted attempt of createWindParticles can push.
CanvasSpawnSet(field) ==
  { CanvasParticle(field, x, y, Unproject(x, y).lng, Unproject(x, y).lat,
                   age, maxAge) :
      <<x, y, maxAge, age>> \in
        { t \in RandomBelow(canvas.width) \X RandomBelow(canvas.height)
                  \X NewMaxAges \X (0..3) :
            /\ isInSoutheastAsia(Unproject(t[1], t[2]).lng,
                                 Unproject(t[1], t[2]).lat)
            /\ t[4] \in RandomBelow(t[3]) } }

\* Lines 203-205: displace and age the particle in place.
CanvasMoved(p) ==
  [p EXCEPT !.x = @ + Cos(p.direction) * p.speed,
            !.y = @ + Sin(p.direction) * p.speed,
            !.age = @ + 1]

\* Lines 216-223: the termination test.
CanvasTerminated(q) ==
  \/ q.age >= q.maxAge
  \/ q.x < -screenMargin
  \/ q.x > canvas.width + screenMargin
  \/ q.y < -screenMargin
  \/ q.y > canvas.height + screenMargin
  \/ ~isInSoutheastAsia(q.lng, q.lat)

\* Lines 225-277: the particles the retry loop can produce.
CanvasRetryParticles ==
  { CanvasParticle(windData, x, y, Unproject(x, y).lng, Unproject(x, y).lat,
                   0, maxAge) :
      <<x, y, maxAge>> \in
        { t \in RandomBelow(canvas.width) \X RandomBelow(canvas.height)
                  \X NewMaxAges :
            isInSoutheastAsia(Unproject(t[1], t[2]).lng,
                              Unproject(t[1], t[2]).lat) } }

\* Lines 280-322: the particles the in-region fallback can produce when
\* map.project succeeds.
CanvasFallbackParticles ==
  { CanvasParticle(windData, Project(lng, lat).x, Project(lng, lat).y,
                   lng, lat, 0, maxAge) :
      <<lng, lat, maxAge>> \in
        { SEA_WEST + r : r \in RandomBelow(SEA_EAST - SEA_WEST) }
        \X { SEA_SOUTH + (r \div 2) :
               r \in RandomBelow(SEA_NORTH_X2 - 2 * SEA_SOUTH) }
        \X NewMaxAges }

\* Lines 323-327: map.project threw; the old particle is kept, its age reset,
\* with a variant that forgets the reset.
CanvasKeepOldNoReset(q) == Outcome(q, TRUE, FALSE)

\* A second variant puts the particle back where it was before the move.
CanvasKeepOldUnmoved(q) ==
  Outcome([q EXCEPT !.age = 0,
                    !.x = @ - Cos(q.direction) * q.speed,
                    !.y = @ - Sin(q.direction) * q.speed], TRUE, FALSE)

CanvasKeepOld(q) == Outcome([q EXCEPT !.age = 0], TRUE, FALSE)

\* Outcomes of the recycle branch after `attempts` failed attempts of the
\* retry loop.  An attempt fails when unproject throws or the candidate is
\* outside the region; unproject may throw on any call.  retry and fallback
\* are CanvasRetryParticles and CanvasFallbackParticles of the current state.
RECURSIVE CanvasRespawn(_, _, _, _)
CanvasRespawn(q, attempts, retry, fallback) ==
  IF attempts < maxAttempts
    THEN retry \cup CanvasRespawn(q, attempts + 1, retry, fallback)
    ELSE fallback \cup { CanvasKeepOld(q) }

\* Line 332-335: the move's unproject threw; the particle is returned as the
\* move left it; with a variant in which the exception leaves the callback.
CanvasMoveEscapes(p) ==
  [p |-> CanvasMoved(p), recycled |-> FALSE, marked |-> FALSE, threw |-> TRUE]

CanvasMoveFailed(p) == Outcome(CanvasMoved(p), FALSE, FALSE)

\* How particles.map ends: it returns unless an exception left one of its
\* callbacks.
CanvasCompletion(outs) ==
  IF \E i \in DOMAIN outs : "threw" \in DOMAIN outs[i]
    THEN "threw" ELSE "returned"

\* Lines 200-336: everything one callback of particles.map can return.
CanvasOutcomes(p, retry, fallback) ==
  LET m == CanvasMoved(p)
      q == [m EXCEPT !.lng = Unproject(m.x, m.y).lng,
                     !.lat = Unproject(m.x, m.y).lat]
  IN  { CanvasMoveFailed(p) }
        \cup (IF CanvasTerminated(q)
                THEN CanvasRespawn(q, 0, retry, fallback)
                ELSE { Outcome(q, FALSE, FALSE) })

\* Views <<map.west, map.north>>: one across the western edge of the region,
\* one across its northern edge.
CanvasViews == { <<91, 15>>, <<100, 29>> }
\* canvas.width and canvas.height after resizeCanvas.
CanvasSize == [width |-> 2, height |-> 2]

\* The field of the view: windDataRef.current after onLoad or onMoveEnd.
CanvasField(view) ==
  generateMockWindData(
    Box(view[1], view[2] - CanvasSize.height,
        view[1] + CanvasSize.width, view[2]),
    ModelDensity)

CanvasInit ==
  /\ variant = "canvas"
  /\ \E view \in CanvasViews, present \in BOOLEAN :
       /\ map = [present |-> present, west |-> view[1], north |-> view[2]]
       /\ canvas = CanvasSize
       /\ windData \in { CanvasField(view), <<>> }
       /\ particles \in SeqsUpTo(CanvasSpawnSet(CanvasField(view)), MaxParticles)
  /\ props = [animate |-> FALSE]
  /\ outcome = "none"
  /\ recycled = NoFlags(particles)
  /\ marked = NoFlags(particles)
  /\ deadline = FreshDeadline(particles)
  /\ frame = 0
  /\ gen = GenIdle
  /\ scan = [pc |-> "idle"]
  /\ gpu = [pc |-> "idle"]
  /\ spawn = [pc |-> "idle"]
  /\ host = [pc |-> "idle"]

\* updateParticles(particles, windData, width, height) of map.tsx, and the
\* assignment of its result to particlesRef.current.
CanvasUpdateParticles ==
  /\ variant = "canvas"
  /\ frame < MaxFrames
  /\ frame' = frame + 1
  /\ outcome' = "returned"
  /\ IF ~map.present \/ Len(windData) = 0
       THEN /\ particles' = particles
            /\ recycled' = NoFlags(particles)
            /\ marked' = NoFlags(particles)
            /\ deadline' = deadline
       ELSE LET retry == { Outcome(n, TRUE, FALSE) : n \in CanvasRetryParticles }
                fallback ==
                  { Outcome(n, TRUE, FALSE) : n \in CanvasFallbackParticles }
            IN
            \E outs \in Choices([i \in 1..Len(particles) |->
                         CanvasOutcomes(particles[i], retry, fallback)]) :
              /\ particles' = Populate(outs)
              /\ recycled' = Flags(outs, "recycled")
              /\ marked' = Flags(outs, "marked")
              /\ deadline' = NextDeadline(outs)
  /\ UNCHANGED <<variant, map, canvas, props, windData, gen, scan, gpu, spawn, host>>

SpecCanvas == CanvasInit /\ [][CanvasUpdateParticles]_vars

-----------------------------------------------------------------------------
(* Instanced-layer variant: WindParticleLayer *)

\* Values of mapBoundsRef.current: two proper boxes and one that the clamp of
\* updateMapBounds inverts (view west of the region: west > east).
LayerBoundsInputs ==
  { Box(10, 13, 12, 15), Box(11, 14, 13, 16), Box(12, 13, 10, 15) }

WellFormed(bounds) ==
  bounds.west <= bounds.east /\ bounds.south <= bounds.north

\* The particle built at a spawn or recycle from the nearest sample.
LayerParticle(field, lng, lat, age, maxAge) ==
  LET closestWindPoint == field[ClosestWindPoint(field, lng, lat)] IN
  [position |-> <<lng, lat>>, age |-> age, maxAge |-> maxAge,
   speed |-> closestWindPoint.speed, direction |-> closestWindPoint.direction]

\* Particles one iteration of generateParticles can push.
LayerSpawnSet(bounds, field) ==
  { LayerParticle(field, t[1], t[2], t[4], t[3]) :
      t \in { u \in RandomBetween(bounds.west, bounds.east)
                      \X RandomBetween(bounds.south, bounds.north)
                      \X NewMaxAges \X (0..3) :
                u[4] \in RandomBelow(u[3]) } }

\* Lines 185-218: the particle reached maxAge and is replaced.
LayerRecycled(bounds, field) ==
  { Outcome(LayerParticle(field, t[1], t[2], 0, t[3]), TRUE, FALSE) :
      t \in RandomBetween(bounds.west, bounds.east)
              \X RandomBetween(bounds.south, bounds.north)
              \X NewMaxAges }

\* Line 227: is (x, y) outside the bounds; with a variant that forgets the
\* northern edge.
LayerOutsideOpenNorth(bounds, x, y) ==
  \/ x < bounds.west
  \/ x > bounds.east
  \/ y < bounds.south

LayerOutside(bounds, x, y) ==
  \/ x < bounds.west
  \/ x > bounds.east
  \/ y < bounds.south
  \/ y > bounds.north

\* Lines 227-231: the next step leaves the bounds; with a variant that lets
\* the particle go on ageing by one.
LayerLeavingKeepsAge(a) == Outcome(a, FALSE, TRUE)

LayerLeaving(a) == Outcome([a EXCEPT !.age = a.maxAge], FALSE, TRUE)

\* Lines 180-242: everything one callback of particles.map can return.
LayerOutcomes(p, bounds, field) ==
  LET a == [p EXCEPT !.age = @ + 1]
      x == a.position[1] + Cos(a.direction) * a.speed
      y == a.position[2] + Sin(a.direction) * a.speed
  IN  IF a.age >= a.maxAge
        THEN LayerRecycled(bounds, field)
        ELSE IF LayerOutside(bounds, x, y)
               THEN { LayerLeaving(a) }
               ELSE { Outcome([a EXCEPT !.position = <<x, y>>], FALSE, FALSE) }

\* initializeState: the field of the bounds and particleCount particles.  A
\* layer whose field came out empty with particleCount > 0 never finishes
\* initializeState (generateParticles reads windData[0].speed), so the layer
\* starts on proper bounds.
LayerInit ==
  /\ variant = "layer"
  /\ \E bounds \in { b \in LayerBoundsInputs : WellFormed(b) },
        animate \in BOOLEAN, particleCount \in 0..MaxParticles :
       /\ props = [bounds |-> bounds, animate |-> animate,
                   particleCount |-> particleCount]
       /\ windData = generateMockWindData(bounds, ModelDensity)
       /\ particles \in
            { q \in SeqsUpTo(LayerSpawnSet(bounds, windData), particleCount) :
                Len(q) = particleCount }
  /\ map = [present |-> FALSE]
  /\ canvas = [width |-> 0, height |-> 0]
  /\ outcome = "none"
  /\ recycled = NoFlags(particles)
  /\ marked = NoFlags(particles)
  /\ deadline = FreshDeadline(particles)
  /\ frame = 0
  /\ gen = GenIdle
  /\ scan = [pc |-> "idle"]
  /\ gpu = [pc |-> "idle"]
  /\ spawn = [pc |-> "idle"]
  /\ host = [pc |-> "idle"]

\* animate(): updateParticles() and the setState of its result.
LayerUpdateParticles ==
  /\ variant = "layer"
  /\ frame < MaxFrames
  /\ frame' = frame + 1
  /\ outcome' = "returned"
  /\ IF ~props.animate \/ Len(particles) = 0
       THEN /\ particles' = particles
            /\ recycled' = NoFlags(particles)
            /\ marked' = NoFlags(particles)
            /\ deadline' = deadline
       ELSE \E outs \in Choices([i \in 1..Len(particles) |->
                         LayerOutcomes(particles[i], props.bounds, windData)]) :
              /\ particles' = Populate(outs)
              /\ recycled' = Flags(outs, "recycled")
              /\ marked' = Flags(outs, "marked")
              /\ deadline' = NextDeadline(outs)
  /\ UNCHANGED <<variant, map, canvas, props, windData, gen, scan, gpu, spawn, host>>

\* updateMapBounds of the deck.gl host: the layer is created again with the
\* clamped bounds of the view; its state (particles, windData) is kept.
LayerUpdateMapBounds ==
  /\ variant = "layer"
  /\ \E bounds \in LayerBoundsInputs \ { props.bounds } :
       props' = [props EXCEPT !.bounds = bounds]
  /\ UNCHANGED <<variant, map, canvas, windData, particles, outcome, recycled,
                 marked, deadline, frame, gen, scan, gpu, spawn, host>>

SpecLayer == LayerInit /\ [][LayerUpdateParticles \/ LayerUpdateMapBounds]_vars

-----------------------------------------------------------------------------
(* Exported variant: updateWindParticles of mockWindData.ts *)

\* The particle generateWindParticles or the respawn branch builds.
ExportedParticle(field, x, y, age, maxAge) ==
  LET closestWindPoint ==
        field[ClosestWindPoint(field, Unproject(x, y).lng, Unproject(x, y).lat)]
  IN  [x |-> x, y |-> y, age |-> age, maxAge |-> maxAge,
       speed |-> closestWindPoint.speed,
       direction |-> closestWindPoint.direction]

ExportedSpawnSet(field) ==
  { ExportedParticle(field, t[1], t[2], t[4], t[3]) :
      t \in { u \in RandomBelow(canvas.width) \X RandomBelow(canvas.height)
                      \X NewMaxAges \X (0..3) :
                u[4] \in RandomBelow(u[3]) } }

\* Lines 192-196: displace and age the particle in place.
ExportedMoved(p) ==
  [p EXCEPT !.x = @ + Cos(p.direction) * p.speed,
            !.y = @ + Sin(p.direction) * p.speed,
            !.age = @ + 1]

\* Lines 199-201: the termination test.
ExportedTerminated(m) ==
  \/ m.age >= m.maxAge
  \/ m.x < 0
  \/ m.x > canvas.width
  \/ m.y < 0
  \/ m.y > canvas.height

\* Lines 188-242, when every unproject succeeds: what one callback returns.
ExportedOutcomes(p, field) ==
  LET m == ExportedMoved(p) IN
  IF ExportedTerminated(m) /\ Len(field) > 0
    THEN { Outcome(ExportedParticle(field, t[1], t[2], 0, t[3]), TRUE, FALSE) :
             t \in RandomBelow(canvas.width) \X RandomBelow(canvas.height)
                     \X NewMaxAges }
    ELSE { Outcome(m, FALSE, FALSE) }

\* The caller's array after map.unproject threw in the callback of slot k:
\* slots 1..k were displaced and aged in place, nothing was returned.
ExportedAfterThrow(ps, k) ==
  [i \in 1..Len(ps) |->
     Outcome(IF i <= k THEN ExportedMoved(ps[i]) ELSE ps[i], FALSE, FALSE)]

ExportedInit ==
  /\ variant = "exported"
  /\ \E view \in CanvasViews :
       /\ map = [present |-> TRUE, west |-> view[1], north |-> view[2]]
       /\ canvas = CanvasSize
       /\ windData \in { CanvasField(view), <<>> }
       /\ particles \in SeqsUpTo(ExportedSpawnSet(CanvasField(view)), MaxParticles)
  /\ props = [animate |-> FALSE]
  /\ outcome = "none"
  /\ recycled = NoFlags(particles)
  /\ marked = NoFlags(particles)
  /\ deadline = FreshDeadline(particles)
  /\ frame = 0
  /\ gen = GenIdle
  /\ scan = [pc |-> "idle"]
  /\ gpu = [pc |-> "idle"]
  /\ spawn = [pc |-> "idle"]
  /\ host = [pc |-> "idle"]

\* updateWindParticles(particles, windData, width, height, map): it returns
\* the mapped population, or map.unproject throws in a respawn and the call
\* ends without a result.
ExportedUpdateWindParticles ==
  /\ variant = "exported"
  /\ frame < MaxFrames
  /\ frame' = frame + 1
  /\ \/ /\ outcome' = "returned"
        /\ \E outs \in Choices([i \in 1..Len(particles) |->
                         ExportedOutcomes(particles[i], windData)]) :
             /\ particles' = Populate(outs)
             /\ recycled' = Flags(outs, "recycled")
             /\ marked' = Flags(outs, "marked")
             /\ deadline' = NextDeadline(outs)
     \/ /\ outcome' = "threw"
        /\ \E k \in 1..Len(particles) :
             /\ ExportedTerminated(ExportedMoved(particles[k]))
             /\ LET outs == ExportedAfterThrow(particles, k) IN
                  /\ particles' = Populate(outs)
                  /\ recycled' = Flags(outs, "recycled")
                  /\ marked' = Flags(outs, "marked")
                  /\ deadline' = NextDeadline(outs)
  /\ UNCHANGED <<variant, map, canvas, props, windData, gen, scan, gpu, spawn, host>>

-----------------------------------------------------------------------------
(* The three advance operations together *)

ParticlesInit == CanvasInit \/ LayerInit \/ ExportedInit

ParticlesNext ==
  \/ CanvasUpdateParticles
  \/ LayerUpdateParticles
  \/ LayerUpdateMapBounds
  \/ ExportedUpdateWindParticles

SpecParticles == ParticlesInit /\ [][ParticlesNext]_vars

-----------------------------------------------------------------------------
(* Properties of the advance operations *)

C2_CanvasAge ==
  [][(/\ variant = "canvas"
      /\ frame' = frame + 1
      /\ map.present
      /\ Len(windData) > 0)
       => \A i \in DOMAIN particles :
            particles'[i].age =
              IF recycled'[i] THEN 0 ELSE particles[i].age + 1]_vars

\* A canvas frame on a present map that recycled a slot.
C2_Witness ==
  /\ variant = "canvas"
  /\ map.present
  /\ Len(windData) > 0
  /\ frame > 1
  /\ \E i \in DOMAIN particles : recycled[i] /\ particles[i].age = 0

\* C3 as claimed: instanced layer, animate on: in every frame a particle's
\* age becomes its previous age + 1, or 0 when the particle is recycled in
\* that frame, also when its next step would leave props.bounds.
C3_LayerAgeAsClaimed ==
  [][(/\ variant = "layer"
      /\ frame' = frame + 1
      /\ props.animate)
       => \A i \in DOMAIN particles :
            particles'[i].age =
              IF recycled'[i] THEN 0 ELSE particles[i].age + 1]_vars

\* C3 amended: instanced layer, animate on: in every frame a particle whose
\* age + 1 reaches maxAge is recycled and its age becomes 0; otherwise, if
\* its next step would leave props.bounds, it is not moved and its age
\* becomes maxAge; otherwise its age becomes its previous age + 1.
C3_LayerAge ==
  [][(/\ variant = "layer"
      /\ frame' = frame + 1
      /\ props.animate)
       => \A i \in DOMAIN particles :
            LET p == particles[i]
                leaving ==
                  LayerOutside(props.bounds,
                               p.position[1] + Cos(p.direction) * p.speed,
                               p.position[2] + Sin(p.direction) * p.speed)
            IN  /\ recycled'[i] <=> p.age + 1 >= p.maxAge
                /\ particles'[i].age =
                     IF recycled'[i] THEN 0
                     ELSE IF leaving THEN p.maxAge
                     ELSE p.age + 1
                /\ (~recycled'[i] /\ leaving)
                     => particles'[i].position = p.position]_vars

\* A layer frame that found a particle about to leave the bounds before the
\* end of its life.
C3_Witness ==
  /\ variant = "layer"
  /\ props.animate
  /\ frame > 0
  /\ \E i \in DOMAIN particles :
       /\ marked[i]
       /\ ~recycled[i]
       /\ particles[i].age = particles[i].maxAge

\* C4 as claimed: canvas variant, after every updateParticles call with a
\* non-empty field, whether the projection calls succeed or throw: every
\* particle has age < maxAge and lies in SOUTHEAST_ASIA_BOUNDS, or was
\* recycled in this frame.
C4_CanvasContained ==
  (/\ variant = "canvas"
   /\ frame > 0
   /\ Len(windData) > 0)
    => \A i \in DOMAIN particles :
         \/ recycled[i]
         \/ /\ particles[i].age < particles[i].maxAge
            /\ isInSoutheastAsia(particles[i].lng, particles[i].lat)

\* C5 as claimed: instanced layer, after every updateParticles call with
\* animate on and well-formed bounds: every particle has age < maxAge and
\* lies inside props.bounds, or was recycled in this frame.
C5_LayerContainedAsClaimed ==
  [][(/\ variant = "layer"
      /\ frame' = frame + 1
      /\ props.animate
      /\ WellFormed(props.bounds))
       => \A i \in DOMAIN particles :
            LET n == particles'[i] IN
            \/ recycled'[i]
            \/ /\ n.age < n.maxAge
               /\ props.bounds.west <= n.position[1]
               /\ n.position[1] <= props.bounds.east
               /\ props.bounds.south <= n.position[2]
               /\ n.position[2] <= props.bounds.north]_vars

\* C5 amended: instanced layer, after every updateParticles call with
\* animate on and well-formed bounds: every particle was recycled in this
\* frame (age 0, inside props.bounds), or has age < maxAge and lies inside
\* props.bounds, or was stopped in this frame because its next step would
\* leave props.bounds: it kept its position and has age = maxAge.
C5_LayerContained ==
  [][(/\ variant = "layer"
      /\ frame' = frame + 1
      /\ props.animate
      /\ WellFormed(props.bounds))
       => \A i \in DOMAIN particles :
            LET n == particles'[i]
                inside ==
                  /\ props.bounds.west <= n.position[1]
                  /\ n.position[1] <= props.bounds.east
                  /\ props.bounds.south <= n.position[2]
                  /\ n.position[2] <= props.bounds.north
            IN  \/ recycled'[i] /\ n.age = 0 /\ inside
                \/ ~marked'[i] /\ n.age < n.maxAge /\ inside
                \/ /\ marked'[i]
                   /\ n.age = n.maxAge
                   /\ n.position = particles[i].position]_vars

\* A layer frame on well-formed bounds that stopped a particle inside the
\* bounds.
C5_Witness ==
  /\ variant = "layer"
  /\ props.animate
  /\ WellFormed(props.bounds)
  /\ outcome = "returned"
  /\ \E i \in DOMAIN particles :
       /\ marked[i]
       /\ props.bounds.west <= particles[i].position[1]
       /\ particles[i].position[1] <= props.bounds.east
       /\ props.bounds.south <= particles[i].position[2]
       /\ particles[i].position[2] <= props.bounds.north

\* C9 as claimed: in the canvas and in the instanced layer, a particle with
\* age a and maxAge m is recycled within m - a advancing frames: no slot
\* runs out of frames without having been recycled.
C9_RecycledInTime ==
  variant \in {"canvas", "layer"} => \A i \in DOMAIN particles : deadline[i] >= 1

-----------------------------------------------------------------------------
(* GPU variant: WebGLWindLayer *)

\* A texture is named by the order of its creation; 0 is null.
NoPass == [read |-> 0, write |-> 0]

\* gl.createTexture(), gl.bindTexture(TEXTURE_2D, texture), upload,
\* gl.bindTexture(TEXTURE_2D, null): the new texture's name is g.nextId; the
\* active unit ends up unbound.
GlCreateTexture(g) ==
  [g EXCEPT !.nextId = @ + 1, !.units[g.activeUnit + 1] = 0]

\* gl.createBuffer(): buffers are named by the order of their creation.
GlCreateBuffer(g) == [g EXCEPT !.buffers = @ + 1]

\* bindTexture(gl, texture, unit)
GpuBindTexture(g, texture, unit) ==
  [g EXCEPT !.activeUnit = unit, !.units[unit + 1] = texture]

\* bindFramebuffer(gl, this.framebuffer, texture)
GpuBindFramebuffer(g, texture) ==
  IF texture # 0 THEN [g EXCEPT !.fb = "layer", !.attachment = texture]
  ELSE [g EXCEPT !.fb = "layer"]

\* bindFramebuffer(gl, null)
GpuUnbindFramebuffer(g) == [g EXCEPT !.fb = "default"]

\* gl.drawArrays with a program that samples the given texture units: the
\* render target is the color attachment of the layer's framebuffer when
\* that framebuffer is bound (0: the canvas or the host's target).
GlDrawArrays(g, sampledUnits) ==
  [g EXCEPT !.draws =
     Append(@, [target |-> IF g.fb = "layer" THEN g.attachment ELSE 0,
                samples |-> { g.units[u + 1] : u \in sampledUnits }])]

\* setColorRamp
GpuSetColorRamp(g) ==
  [GlCreateTexture(g) EXCEPT !.colorRampTexture = g.nextId]

\* setNumParticles: two new state textures; the pair that alternated so far
\* is gone.  With a variant that makes one texture serve as both.
GpuSetNumParticlesShared(g) ==
  LET g0 == [GlCreateTexture(g) EXCEPT !.particleStateTexture0 = g.nextId]
  IN  [GlCreateBuffer(g0) EXCEPT !.particleStateTexture1 = g.nextId,
                                 !.particleIndexBuffer = g0.buffers + 1,
                                 !.last = NoPass, !.prev = NoPass]

GpuSetNumParticles(g) ==
  LET g0 == [GlCreateTexture(g) EXCEPT !.particleStateTexture0 = g.nextId]
      g1 == [GlCreateTexture(g0) EXCEPT !.particleStateTexture1 = g0.nextId]
  IN  [GlCreateBuffer(g1) EXCEPT !.particleIndexBuffer = g1.buffers + 1,
                                 !.last = NoPass, !.prev = NoPass]

\* setWindData
GpuSetWindData(g) ==
  [GlCreateTexture(g) EXCEPT !.windData = TRUE, !.windTexture = g.nextId]

\* resize
GpuResize(g) ==
  LET g0 == [GlCreateTexture(g) EXCEPT !.backgroundTexture = g.nextId]
  IN  [GlCreateTexture(g0) EXCEPT !.screenTexture = g0.nextId]

\* startAnimation, with a variant that requests a frame whatever
\* this.animationFrame holds; g.scheduled counts the frame callbacks that are
\* requested and have neither run nor been cancelled.
GpuStartAnimationUnguarded(g) ==
  [g EXCEPT !.animationFrame = "pending", !.scheduled = @ + 1]

GpuStartAnimation(g) ==
  IF g.animationFrame = "none"
    THEN [g EXCEPT !.animationFrame = "pending", !.scheduled = @ + 1]
    ELSE g

\* stopAnimation: cancelAnimationFrame of the id held, which does nothing
\* when that callback has already run.
GpuStopAnimation(g) ==
  IF g.animationFrame # "none"
    THEN [g EXCEPT !.animationFrame = "none",
                   !.scheduled = IF g.animationFrame = "pending" /\ @ > 0
                                   THEN @ - 1 ELSE @]
    ELSE g

\* drawTexture(texture, opacity): the screen program samples unit 2
\* (u_screen).
GpuDrawTexture(g, texture) ==
  GlDrawArrays(GpuBindTexture(g, texture, 2), {2})

\* drawParticles: the draw program samples units 0, 1 and 2 (u_wind,
\* u_particles, u_color_ramp).
GpuDrawParticles(g) ==
  IF g.particleIndexBuffer = 0 \/ g.colorRampTexture = 0 \/ ~g.windData THEN g
  ELSE GlDrawArrays(GpuBindTexture(g, g.colorRampTexture, 2), {0, 1, 2})

\* drawScreen
GpuDrawScreen(g) ==
  IF g.screenTexture = 0 \/ g.backgroundTexture = 0 THEN g
  ELSE LET g0 == GpuBindFramebuffer(g, g.screenTexture)
           g1 == GpuDrawTexture(g0, g0.backgroundTexture)
           g2 == GpuDrawParticles(g1)
           g3 == GpuDrawTexture(GpuUnbindFramebuffer(g2), g2.screenTexture)
       IN  [g3 EXCEPT !.backgroundTexture = g3.screenTexture,
                      !.screenTexture = g3.backgroundTexture]

\* Lines 793-795: the swap, with a variant that leaves the fields alone.
GpuSwapNothing(g) == g

GpuSwap(g) ==
  [g EXCEPT !.particleStateTexture0 = g.particleStateTexture1,
            !.particleStateTexture1 = g.particleStateTexture0]

\* updateParticles: the pass reads the texture bound to unit 1 (u_particles)
\* and writes the color attachment of the framebuffer.
GpuUpdateParticles(g) ==
  IF g.particleStateTexture1 = 0 \/ ~g.windData THEN g
  ELSE LET g0 == GlDrawArrays(
                   GpuBindFramebuffer(g, g.particleStateTexture1), {0, 1})
           pass == [read |-> g0.units[2], write |-> g0.attachment]
       IN  GpuSwap([g0 EXCEPT !.passes = @ + 1, !.prev = g0.last,
                              !.last = pass])

\* drawAnimationFrame
GpuDrawAnimationFrame(g) ==
  IF g.windTexture = 0 \/ g.particleStateTexture0 = 0 THEN g
  ELSE GpuUpdateParticles(
         GpuDrawScreen(
           GpuBindTexture(GpuBindTexture(g, g.windTexture, 0),
                          g.particleStateTexture0, 1)))

\* drawStaticFrame
GpuDrawStaticFrame(g) ==
  IF g.windTexture = 0 \/ g.particleStateTexture0 = 0 THEN g
  ELSE GpuDrawParticles(
         GpuBindTexture(GpuBindTexture(g, g.windTexture, 0),
                        g.particleStateTexture0, 1))

GpuNumParticlesInputs == {0, 1, 2}

\* The layer object before initializeState.  programs and buffers count the
\* program and buffer objects created so far, framebuffer tells whether the
\* framebuffer exists, released holds the resources given back.
GpuNew(numParticles, animate) ==
  [pc |-> "new", nextId |-> 1, activeUnit |-> 0, units |-> <<0, 0, 0>>,
   fb |-> "default", attachment |-> 0, draws |-> <<>>,
   programs |-> 0, buffers |-> 0, quadBuffer |-> 0, framebuffer |-> FALSE,
   released |-> {},
   particleIndexBuffer |-> 0,
   colorRampTexture |-> 0, backgroundTexture |-> 0,
   screenTexture |-> 0, particleStateTexture0 |-> 0,
   particleStateTexture1 |-> 0, windTexture |-> 0, windData |-> FALSE,
   animationFrame |-> "none", scheduled |-> 0, numParticles |-> numParticles,
   animate |-> animate, passes |-> 0, updates |-> 0,
   last |-> NoPass, prev |-> NoPass]

\* Where a call of createProgram can end: it returns, or it throws after the
\* vertex shader, after the fragment shader or after linking.
ProgramResults == { "ok", "vertex", "fragment", "link" }

\* createProgram(gl, vertexSource, fragmentSource): the program object exists
\* once gl.createProgram() ran, that is unless a shader failed to compile.
GpuCreateProgram(g, result) ==
  IF g.pc = "failed" THEN g
  ELSE IF result = "ok" THEN [g EXCEPT !.programs = @ + 1]
  ELSE IF result = "link" THEN [g EXCEPT !.programs = @ + 1, !.pc = "failed"]
  ELSE [g EXCEPT !.pc = "failed"]

\* Lines 240-259 of initializeState: buffers, framebuffer, textures, then the
\* start of the animation.
GpuInitializeResources(g) ==
  LET g0 == [GlCreateBuffer(g) EXCEPT !.quadBuffer = g.buffers + 1,
                                      !.framebuffer = TRUE]
      g1 == GpuSetColorRamp(g0)
      g2 == IF g1.numParticles # 0 THEN GpuSetNumParticles(g1) ELSE g1
      g3 == IF g2.animate THEN GpuStartAnimation(g2) ELSE g2
  IN  [g3 EXCEPT !.pc = "ready"]

\* initializeState, given how its three createProgram calls end; with a
\* variant that starts the animation first.
GpuInitializeStateEager(g, results) ==
  LET s == IF g.animate THEN GpuStartAnimation(g) ELSE g
      p == GpuCreateProgram(GpuCreateProgram(GpuCreateProgram(s,
             results[1]), results[2]), results[3])
  IN  IF p.pc = "failed" THEN p ELSE GpuInitializeResources(p)

GpuInitializeState(g, results) ==
  LET p == GpuCreateProgram(GpuCreateProgram(GpuCreateProgram(g,
             results[1]), results[2]), results[3])
  IN  IF p.pc = "failed" THEN p ELSE GpuInitializeResources(p)

GpuInit ==
  /\ gpu \in { GpuNew(n, a) : n \in GpuNumParticlesInputs, a \in BOOLEAN }
  /\ gen = GenIdle
  /\ scan = [pc |-> "idle"]
  /\ variant = "none"
  /\ map = [present |-> FALSE]
  /\ canvas = [width |-> 0, height |-> 0]
  /\ props = [animate |-> FALSE]
  /\ windData = <<>>
  /\ particles = <<>>
  /\ outcome = "none"
  /\ recycled = <<>>
  /\ marked = <<>>
  /\ deadline = <<>>
  /\ frame = 0
  /\ spawn = [pc |-> "idle"]
  /\ host = [pc |-> "idle"]

\* initializeState(context)
GpuInitialize ==
  /\ gpu.pc = "new"
  /\ \E results \in [1..3 -> ProgramResults] :
       gpu' = GpuInitializeState(gpu, results)
  /\ UNCHANGED <<gen, scan, partVars, spawn, host>>

\* updateState({props, oldProps, changeFlags})
GpuUpdateState ==
  /\ gpu.pc = "ready"
  /\ gpu.updates < MaxUpdates
  /\ \E numParticles \in GpuNumParticlesInputs, animate \in BOOLEAN,
        colorRampChanged \in BOOLEAN, viewportChanged \in BOOLEAN :
       LET g0 == [gpu EXCEPT !.updates = @ + 1, !.draws = <<>>,
                             !.numParticles = numParticles,
                             !.animate = animate]
           g1 == IF numParticles # gpu.numParticles /\ numParticles # 0
                   THEN GpuSetNumParticles(g0) ELSE g0
           g2 == IF colorRampChanged THEN GpuSetColorRamp(g1) ELSE g1
           g3 == IF animate # gpu.animate
                   THEN IF animate THEN GpuStartAnimation(g2)
                        ELSE GpuStopAnimation(g2)
                   ELSE g2
           g4 == IF ~g3.windData THEN GpuSetWindData(g3) ELSE g3
           g5 == IF viewportChanged THEN GpuResize(g4) ELSE g4
       IN  gpu' = g5
  /\ UNCHANGED <<gen, scan, partVars, spawn, host>>

\* The layer as the host hands it to draw(): deck.gl has bound its own
\* render target.
GpuHostFrame(g) == [g EXCEPT !.fb = "default", !.draws = <<>>]

\* draw({uniforms})
GpuDraw ==
  /\ gpu.pc = "ready"
  /\ gpu.passes < MaxPasses
  /\ LET g == GpuHostFrame(gpu) IN
     gpu' = IF g.windTexture = 0 \/ g.particleStateTexture0 = 0 THEN g
            ELSE IF g.animate THEN GpuDrawAnimationFrame(g)
            ELSE GpuDrawStaticFrame(g)
  /\ UNCHANGED <<gen, scan, partVars, spawn, host>>

\* animateFrame, the requestAnimationFrame callback: a request that was not
\* renewed stays in this.animationFrame.
GpuAnimateFrame ==
  /\ gpu.pc = "ready"
  /\ gpu.scheduled > 0
  /\ gpu.passes < MaxPasses
  /\ gpu' = [GpuDrawAnimationFrame([gpu EXCEPT !.draws = <<>>]) EXCEPT
               !.animationFrame = IF gpu.animate THEN "pending"
                                  ELSE IF gpu.scheduled = 1 THEN "stale" ELSE @,
               !.scheduled = IF gpu.animate THEN @ ELSE @ - 1]
  /\ UNCHANGED <<gen, scan, partVars, spawn, host>>

\* The host's updateDeckGLLayers: webglLayerRef.current.props.animate is
\* assigned the value of animationEnabled on the layer object itself; no
\* updateState follows.
GpuHostSetAnimate ==
  /\ gpu.pc = "ready"
  /\ gpu' = [gpu EXCEPT !.animate = ~@]
  /\ UNCHANGED <<gen, scan, partVars, spawn, host>>

\* The resources the layer object holds in its fields.
GpuHeld(g) ==
  { <<"buffer", b>> : b \in { g.quadBuffer, g.particleIndexBuffer } \ {0} }
    \cup { <<"texture", t>> :
             t \in { g.colorRampTexture, g.backgroundTexture, g.screenTexture,
                     g.particleStateTexture0, g.particleStateTexture1,
                     g.windTexture } \ {0} }

\* finalizeState(): stopAnimation, then .delete() on each buffer and texture
\* held and gl.deleteFramebuffer.  The objects are those gl.createBuffer and
\* gl.createTexture returned: when they have no delete method the first call
\* (line 266, the quad buffer) raises and nothing is released.
GpuFinalizeState ==
  /\ gpu.pc = "ready"
  /\ \E hasDelete \in BOOLEAN :
       gpu' = [GpuStopAnimation(gpu) EXCEPT
                 !.pc = "finalized",
                 !.released = IF hasDelete
                                THEN GpuHeld(gpu) \cup { <<"framebuffer", 1>> }
                                ELSE {}]
  /\ UNCHANGED <<gen, scan, partVars, spawn, host>>

GpuNext ==
  \/ GpuInitialize
  \/ GpuUpdateState
  \/ GpuDraw
  \/ GpuAnimateFrame
  \/ GpuHostSetAnimate
  \/ GpuFinalizeState

SpecGPU == GpuInit /\ [][GpuNext]_vars

\* C10: a completed update pass reads particleStateTexture0 and writes
\* particleStateTexture1, two different textures; after it the write target
\* is particleStateTexture0 (the next read source) and the former read
\* source is particleStateTexture1 (the next write target); consecutive
\* passes over a pair of textures swap the roles of the two each time.
C10_PingPong ==
  [][gpu'.passes = gpu.passes + 1 =>
       /\ gpu'.last.read = gpu.particleStateTexture0
       /\ gpu'.last.write = gpu.particleStateTexture1
       /\ gpu'.last.read # gpu'.last.write
       /\ gpu'.particleStateTexture0 = gpu'.last.write
       /\ gpu'.particleStateTexture1 = gpu'.last.read
       /\ gpu'.prev # NoPass =>
            /\ gpu'.last.read = gpu'.prev.write
            /\ gpu'.last.write = gpu'.prev.read]_vars

\* Three passes in a row over one pair of textures.
C10_Witness ==
  /\ gpu.pc = "ready"
  /\ gpu.passes >= 3
  /\ gpu.prev # NoPass
  /\ gpu.last.read = gpu.prev.write
  /\ gpu.particleStateTexture0 = gpu.last.write

GpuCreated(g) ==
  { <<"program", k>> : k \in 1..g.programs }
    \cup { <<"buffer", b>> : b \in 1..g.buffers }
    \cup { <<"texture", t>> : t \in 1..(g.nextId - 1) }
    \cup (IF g.framebuffer THEN { <<"framebuffer", 1>> } ELSE {})

\* C16: when finalizeState has returned, every GPU resource the layer created
\* during its life has been released.
C16_AllReleased ==
  gpu.pc = "finalized" => GpuCreated(gpu) \subseteq gpu.released

\* C17: initializeState completes only with its three programs built; when a
\* compile or link step of one of them fails, it ends there: no buffer,
\* framebuffer or texture has been created and no frame callback has been
\* requested.
C17_FailedInitRequestsNoFrame ==
  /\ gpu.pc = "ready" => gpu.programs = 3
  /\ gpu.pc = "failed" =>
       /\ gpu.animationFrame = "none"
       /\ gpu.quadBuffer = 0
       /\ ~gpu.framebuffer
       /\ gpu.colorRampTexture = 0
       /\ gpu.particleStateTexture0 = 0

\* The third program failed to link on a layer asked to animate.
C17_Witness ==
  /\ gpu.pc = "failed"
  /\ gpu.programs = 3
  /\ gpu.animate
  /\ gpu.numParticles # 0

\* C18: a draw() or a frame callback that runs while props.animate is false
\* runs no update pass and no fade pass: it leaves the particle-state
\* textures and the screen and background textures as they were, and draws
\* nothing but the particles, to the host's target.
C18_StaticRunsNoPass ==
  [][(/\ gpu.pc = "ready"
      /\ gpu'.pc = "ready"
      /\ gpu'.updates = gpu.updates
      /\ gpu'.animate = gpu.animate
      /\ ~gpu.animate) =>
       /\ gpu'.passes = gpu.passes
       /\ gpu'.particleStateTexture0 = gpu.particleStateTexture0
       /\ gpu'.particleStateTexture1 = gpu.particleStateTexture1
       /\ gpu'.screenTexture = gpu.screenTexture
       /\ gpu'.backgroundTexture = gpu.backgroundTexture
       /\ Len(gpu'.draws) <= 1
       /\ \A k \in DOMAIN gpu'.draws : gpu'.draws[k].target = 0]_vars

\* C29 as claimed: whenever props.animate is true on an initialized layer,
\* after any sequence of changes through updateState or through the host's
\* write to layer.props.animate, a frame callback is scheduled (so the loop
\* can be restarted whenever it was stopped).
C29_AnimateMeansLoopRuns ==
  (gpu.pc = "ready" /\ gpu.animate) => gpu.animationFrame = "pending"

-----------------------------------------------------------------------------
(* Canvas spawn: createWindParticles of map.tsx *)

\* maxAttempts = count * 3
attemptFactor == 3

\* Line 126: the loop test, with a variant that forgets the attempt budget.
SpawnContinuesUnbudgeted(sp) == Len(sp.particles) < sp.count

SpawnContinues(sp) ==
  /\ Len(sp.particles) < sp.count
  /\ sp.attempts < sp.count * attemptFactor

\* Lines 127-176: the bodies one iteration can run.  The attempt is counted;
\* it is rejected when unproject throws or the point is outside the region,
\* and pushes a particle otherwise.
SpawnAttempts(sp) ==
  { [sp EXCEPT !.attempts = @ + 1] }
    \cup { [sp EXCEPT !.attempts = @ + 1, !.particles = Append(@, p)] :
             p \in CanvasSpawnSet(windData) }

\* The arrays createWindParticles(field, width, height, count) can return.
createWindParticles(field, count) ==
  IF ~map.present \/ Len(field) = 0 THEN { <<>> }
  ELSE SeqsUpTo(CanvasSpawnSet(field), count)

SpawnInit ==
  /\ variant = "spawn"
  /\ \E view \in CanvasViews, present \in BOOLEAN :
       /\ map = [present |-> present, west |-> view[1], north |-> view[2]]
       /\ canvas = CanvasSize
       /\ windData \in { CanvasField(view), <<>> }
  /\ \E count \in 0..MaxCount :
       spawn = [pc |-> "call", count |-> count, attempts |-> 0,
                particles |-> <<>>]
  /\ props = [animate |-> FALSE]
  /\ particles = <<>>
  /\ outcome = "none"
  /\ recycled = <<>>
  /\ marked = <<>>
  /\ deadline = <<>>
  /\ frame = 0
  /\ gen = GenIdle
  /\ scan = [pc |-> "idle"]
  /\ gpu = [pc |-> "idle"]
  /\ host = [pc |-> "idle"]

\* Line 119: the guard at the head of createWindParticles.
SpawnEnter ==
  /\ spawn.pc = "call"
  /\ spawn' = [spawn EXCEPT !.pc = IF ~map.present \/ Len(windData) = 0
                                     THEN "done" ELSE "loop"]
  /\ UNCHANGED <<gen, scan, partVars, gpu, host>>

\* One test of the while loop, with the iteration it admits or the return.
SpawnAttempt ==
  /\ spawn.pc = "loop"
  /\ IF SpawnContinues(spawn)
       THEN spawn' \in SpawnAttempts(spawn)
       ELSE spawn' = [spawn EXCEPT !.pc = "done"]
  /\ UNCHANGED <<gen, scan, partVars, gpu, host>>

SpawnNext == SpawnEnter \/ SpawnAttempt

SpecSpawn == SpawnInit /\ [][SpawnNext]_vars

\* C12: createWindParticles makes at most count * 3 attempts (each step of
\* its loop uses one of them up or returns), holds at most count particles,
\* all of them inside SOUTHEAST_ASIA_BOUNDS, and returns fewer than count
\* particles only when the budget is used up (or at once, without a map or
\* with an empty field).
C12_SpawnBounded ==
  /\ [](spawn.pc \in {"loop", "done"} =>
          /\ spawn.attempts <= spawn.count * attemptFactor
          /\ Len(spawn.particles) <= spawn.count
          /\ \A i \in DOMAIN spawn.particles :
               isInSoutheastAsia(spawn.particles[i].lng, spawn.particles[i].lat)
          /\ spawn.pc = "done" =>
               \/ Len(spawn.particles) = spawn.count
               \/ spawn.attempts = spawn.count * attemptFactor
               \/ ~map.present
               \/ Len(windData) = 0)
  /\ [][spawn.pc = "loop" =>
          \/ spawn'.attempts = spawn.attempts + 1
          \/ spawn'.pc = "done" /\ spawn'.particles = spawn.particles]_vars

\* A call that used up its budget and returned fewer particles than asked.
C12_Witness ==
  /\ spawn.pc = "done"
  /\ spawn.count = MaxCount
  /\ spawn.attempts = spawn.count * attemptFactor
  /\ Len(spawn.particles) = 1

-----------------------------------------------------------------------------
(* Life of the instanced layer: initializeState, animate, finalizeState *)

\* host while the layer lives: pc is the stage of its life; raf counts the
\* frame callbacks that are scheduled and loop holds the props of the layer
\* object they are bound to; ref says whether this.animationFrame of the
\* current layer object is set; op names the spawn or advance operation that
\* ran last and empty tells whether it ran on an empty field.
HostOp(h, op, field) ==
  [h EXCEPT !.op = op, !.empty = Len(field) = 0]

\* generateParticles(windData): the arrays it can return; it has none when it
\* raises, which it does in the first iteration on an empty field, where
\* closestWindPoint stays windData[0] = undefined and .speed is read from it.
generateParticles(bounds, field, particleCount) ==
  IF particleCount > 0 /\ Len(field) = 0 THEN {}
  ELSE { q \in SeqsUpTo(LayerSpawnSet(bounds, field), particleCount) :
           Len(q) = particleCount }

\* The layer object after construction: empty state, no frame requested.
LayerLifeInit ==
  /\ variant = "layer"
  /\ \E bounds \in LayerBoundsInputs, animate \in BOOLEAN,
        particleCount \in 0..MaxParticles :
       props = [bounds |-> bounds, animate |-> animate,
                particleCount |-> particleCount]
  /\ windData = <<>>
  /\ particles = <<>>
  /\ host = [pc |-> "new", raf |-> 0, ref |-> FALSE, loop |-> props,
             op |-> "none", empty |-> FALSE]
  /\ map = [present |-> FALSE]
  /\ canvas = [width |-> 0, height |-> 0]
  /\ outcome = "none"
  /\ recycled = <<>>
  /\ marked = <<>>
  /\ deadline = <<>>
  /\ frame = 0
  /\ gen = GenIdle
  /\ scan = [pc |-> "idle"]
  /\ gpu = [pc |-> "idle"]
  /\ spawn = [pc |-> "idle"]

\* initializeState(): the field of props.bounds, the population seeded from
\* it, setState of both, then the first frame request.  When generateParticles
\* raises, neither setState nor requestAnimationFrame is reached.
LayerInitializeState ==
  /\ variant = "layer"
  /\ host.pc = "new"
  /\ LET field == generateMockWindData(props.bounds, ModelDensity)
         seeded == generateParticles(props.bounds, field, props.particleCount)
     IN  IF seeded = {}
           THEN /\ outcome' = "threw"
                /\ host' = HostOp([host EXCEPT !.pc = "failed"],
                                  "generateParticles", field)
                /\ UNCHANGED <<windData, particles, recycled, marked, deadline>>
           ELSE /\ outcome' = "returned"
                /\ host' = HostOp([host EXCEPT !.pc = "live", !.raf = @ + 1,
                                               !.ref = TRUE],
                                  "generateParticles", field)
                /\ windData' = field
                /\ particles' \in seeded
                /\ recycled' = NoFlags(particles')
                /\ marked' = NoFlags(particles')
                /\ deadline' = FreshDeadline(particles')
  /\ UNCHANGED <<variant, map, canvas, props, frame, gen, scan, gpu, spawn>>

\* animate(), the frame callback, bound to the layer object that requested
\* it: updateParticles() and setState when that object's props.animate is
\* set, then the request of the next frame.
LayerAnimate ==
  /\ variant = "layer"
  /\ host.raf > 0
  /\ frame < MaxFrames
  /\ frame' = frame + 1
  /\ outcome' = "returned"
  /\ host' = HostOp(host, "updateParticles", windData)
  /\ IF ~host.loop.animate \/ Len(particles) = 0
       THEN /\ particles' = particles
            /\ recycled' = NoFlags(particles)
            /\ marked' = NoFlags(particles)
            /\ deadline' = deadline
       ELSE \E outs \in Choices([i \in 1..Len(particles) |->
                         LayerOutcomes(particles[i], host.loop.bounds,
                                       windData)]) :
              /\ particles' = Populate(outs)
              /\ recycled' = Flags(outs, "recycled")
              /\ marked' = Flags(outs, "marked")
              /\ deadline' = NextDeadline(outs)
  /\ UNCHANGED <<variant, map, canvas, props, windData, gen, scan, gpu, spawn>>

\* finalizeState() of the current layer object: the frame named by its
\* animationFrame is cancelled.
LayerFinalizeState ==
  /\ variant = "layer"
  /\ host.pc \in {"live", "failed"}
  /\ host' = [host EXCEPT !.pc = "finalized",
                          !.raf = IF host.ref /\ @ > 0 THEN @ - 1 ELSE @,
                          !.ref = FALSE]
  /\ UNCHANGED <<partVars, gen, scan, gpu, spawn>>

\* updateMapBounds of the deck.gl host while the layer lives: the host drops
\* its layer object and creates a new one, with the same id, for the clamped
\* bounds.  deck.gl matches the new object to the old one by id and hands it
\* the old state: initializeState does not run again, state.windData and
\* state.particles are kept, and the new object's animationFrame is the null
\* of its field initializer.
LayerBoundsChange ==
  /\ variant = "layer"
  /\ host.pc = "live"
  /\ \E bounds \in LayerBoundsInputs \ { props.bounds } :
       props' = [props EXCEPT !.bounds = bounds]
  /\ host' = [host EXCEPT !.ref = FALSE]
  /\ UNCHANGED <<variant, map, canvas, windData, particles, outcome, recycled,
                 marked, deadline, frame, gen, scan, gpu, spawn>>

LayerLifeNext ==
  \/ LayerInitializeState
  \/ LayerAnimate
  \/ LayerBoundsChange
  \/ LayerFinalizeState

SpecLayerLife == LayerLifeInit /\ [][LayerLifeNext]_vars

\* C13: an operation that spawns or advances particles on an empty wind field
\* completes: it never raises.
C13_EmptyFieldNeverRaises == ~(host.pc # "idle" /\ host.empty /\ outcome = "threw")

\* C14: after teardown (unmount of the component, finalizeState of a layer)
\* no frame callback of the renderer's loop is scheduled, so none runs again.
C14_NoFrameAfterTeardown ==
  host.pc \in {"unmounted", "finalized"} => host.raf = 0

\* C20: once a frame callback has run on a live layer, state.windData is the
\* field of the current props.bounds and every particle lies inside them.
C20_ReseededOnBoundsChange ==
  (host.pc = "live" /\ host.op = "updateParticles") =>
    /\ windData = generateMockWindData(props.bounds, ModelDensity)
    /\ \A i \in DOMAIN particles :
         /\ particles[i].position[1] >= props.bounds.west
         /\ particles[i].position[1] <= props.bounds.east
         /\ particles[i].position[2] >= props.bounds.south
         /\ particles[i].position[2] <= props.bounds.north

\* C28 as claimed: on a live layer with the animation on, a particle whose
\* next step would leave props.bounds before the end of its life is not
\* moved and gets age = maxAge, and a particle so marked is replaced in the
\* next frame by a fresh one (age 0) inside props.bounds; so with well-formed
\* props.bounds no particle's position is outside them in any state.
C28_NeverOutsideBounds ==
  /\ [][(/\ variant = "layer"
         /\ host.pc = "live"
         /\ frame' = frame + 1
         /\ host.loop.animate)
          => \A i \in DOMAIN particles :
               LET p == particles[i]
                   n == particles'[i]
                   x == p.position[1] + Cos(p.direction) * p.speed
                   y == p.position[2] + Sin(p.direction) * p.speed
                   leaving ==
                     \/ x < props.bounds.west \/ x > props.bounds.east
                     \/ y < props.bounds.south \/ y > props.bounds.north
               IN  /\ (leaving /\ p.age + 1 < p.maxAge)
                        => n.position = p.position /\ n.age = p.maxAge
                   /\ (marked[i] /\ p.age = p.maxAge)
                        => /\ recycled'[i]
                           /\ n.age = 0
                           /\ WellFormed(props.bounds) =>
                                /\ n.position[1] >= props.bounds.west
                                /\ n.position[1] <= props.bounds.east
                                /\ n.position[2] >= props.bounds.south
                                /\ n.position[2] <= props.bounds.north]_vars
  /\ []((variant = "layer" /\ host.pc = "live" /\ WellFormed(props.bounds))
          => \A i \in DOMAIN particles :
               /\ particles[i].position[1] >= props.bounds.west
               /\ particles[i].position[1] <= props.bounds.east
               /\ particles[i].position[2] >= props.bounds.south
               /\ particles[i].position[2] <= props.bounds.north)

-----------------------------------------------------------------------------
(* Life of the canvas component: mount, load, moveend/zoomend, frames,
   resize, unmount *)

MaxEvents == 2

\* SOUTHEAST_ASIA_BOUNDS on the lattice (its north edge, 28.5, truncated): the
\* initial value of mapBoundsRef.current.
SOUTHEAST_ASIA_BOUNDS ==
  Box(SEA_WEST, SEA_SOUTH, SEA_EAST, SEA_NORTH_X2 \div 2)

\* Views <<west, north>> of the host map: inside the region, across its
\* western edge, and displaced to the west of it.
LifeViews == { <<100, 15>>, <<91, 15>>, <<88, 15>> }

\* The view the component creates its map with.
InitialView == <<100, 15>>

\* map.getBounds() of a view.
GetBounds(view) ==
  Box(view[1], view[2] - CanvasSize.height, view[1] + CanvasSize.width, view[2])

\* updateMapBounds: each edge of the view is clamped on its own against the
\* region, Math.max for west and south, Math.min for east and north.
updateMapBounds(view) ==
  LET bounds == GetBounds(view) IN
  Box(Max2(bounds.west, SEA_WEST),
      Max2(bounds.south, SEA_SOUTH),
      Min2(bounds.east, SEA_EAST),
      IF 2 * bounds.north <= SEA_NORTH_X2 THEN bounds.north
      ELSE SEA_NORTH_X2 \div 2)

\* Population sizes the frame callback asks createWindParticles for (the code
\* asks for 600).
SeedCounts == { 1 }

\* A map instance: handlers tells whether onLoad and onMoveEnd are registered
\* on it, loaded whether its load event has fired.
MapOf(view, handlers, loaded) ==
  [present |-> TRUE, west |-> view[1], north |-> view[2],
   handlers |-> handlers, loaded |-> loaded]

\* The component after its first commit: the map is created, the canvas is
\* attached and resizeCanvas has run once, the handlers are registered.
CanvasLifeInit ==
  /\ variant = "canvas"
  /\ map = MapOf(InitialView, TRUE, FALSE)
  /\ canvas = CanvasSize
  /\ windData = generateMockWindData(SOUTHEAST_ASIA_BOUNDS, ModelDensity)
  /\ particles = <<>>
  /\ host = [pc |-> "mounted", raf |-> 0, ref |-> FALSE,
             canvasRef |-> TRUE, bounds |-> SOUTHEAST_ASIA_BOUNDS,
             events |-> 0,
             op |-> "none", empty |-> FALSE]
  /\ props = [animate |-> FALSE]
  /\ outcome = "none"
  /\ recycled = <<>>
  /\ marked = <<>>
  /\ deadline = <<>>
  /\ frame = 0
  /\ gen = GenIdle
  /\ scan = [pc |-> "idle"]
  /\ gpu = [pc |-> "idle"]
  /\ spawn = [pc |-> "idle"]

\* onLoad: the load event of the map the handlers are registered on.
CanvasOnLoad ==
  /\ variant = "canvas"
  /\ host.pc = "mounted"
  /\ map.handlers /\ ~map.loaded
  /\ LET bounds == updateMapBounds(<<map.west, map.north>>) IN
       /\ windData' = generateMockWindData(bounds, ModelDensity)
       /\ host' = [host EXCEPT !.bounds = bounds, !.raf = IF host.ref THEN @ ELSE @ + 1,
                               !.ref = TRUE]
  /\ map' = [map EXCEPT !.loaded = TRUE]
  /\ UNCHANGED <<variant, canvas, props, particles, outcome, recycled, marked,
                 deadline, frame, gen, scan, gpu, spawn>>

\* A moveend or zoomend event of the current map that leaves it at `view`.
\* With the handlers registered, onMoveEnd runs: the clamped bounds are
\* stored, the population emptied, the field regenerated; setLng, setLat and
\* setZoom then change the component's state when the view moved, and the
\* map-creation effect (dependencies lng, lat, zoom) removes the map and
\* creates a new one, on which no handler is registered (the event effect
\* does not run again).  Without handlers the event changes the view only.
CanvasOnMoveEnd ==
  /\ variant = "canvas"
  /\ host.pc = "mounted"
  /\ host.events < MaxEvents
  /\ \E view \in LifeViews :
       IF map.handlers
         THEN /\ host' = [host EXCEPT !.bounds = updateMapBounds(view),
                                      !.events = @ + 1]
              /\ particles' = <<>>
              /\ windData' =
                   generateMockWindData(updateMapBounds(view), ModelDensity)
              /\ map' = IF view = <<map.west, map.north>>
                          THEN map
                          ELSE MapOf(view, FALSE, FALSE)
         ELSE /\ host' = [host EXCEPT !.events = @ + 1]
              /\ map' = [map EXCEPT !.west = view[1], !.north = view[2]]
              /\ UNCHANGED <<particles, windData>>
  /\ UNCHANGED <<variant, canvas, props, outcome, recycled, marked, deadline,
                 frame, gen, scan, gpu, spawn>>

\* animateParticles, the frame callback: seed when the population is empty
\* and the field is not, advance, draw, request the next frame (line 407,
\* reached when nothing was thrown before it).
CanvasAnimateParticles ==
  /\ variant = "canvas"
  /\ host.raf > 0
  /\ frame < MaxFrames
  /\ frame' = frame + 1
  /\ IF ~map.present \/ ~host.canvasRef
       THEN /\ host' = [host EXCEPT !.raf = @ - 1]
            /\ particles' = particles
            /\ outcome' = "returned"
       ELSE \E seeded \in
                (IF Len(particles) = 0 /\ Len(windData) > 0
                   THEN UNION { createWindParticles(windData, count) :
                                  count \in SeedCounts }
                   ELSE { particles }) :
              IF Len(seeded) = 0 \/ Len(windData) = 0
                THEN /\ particles' = seeded
                     /\ outcome' = "returned"
                     /\ host' = [host EXCEPT !.op = "updateParticles",
                                             !.empty = Len(windData) = 0]
                ELSE LET retry == { Outcome(n, TRUE, FALSE) :
                                      n \in CanvasRetryParticles }
                         fallback == { Outcome(n, TRUE, FALSE) :
                                         n \in CanvasFallbackParticles }
                     IN  \E outs \in Choices([i \in 1..Len(seeded) |->
                               CanvasOutcomes(seeded[i], retry, fallback)]) :
                           /\ particles' = Populate(outs)
                           /\ outcome' = CanvasCompletion(outs)
                           /\ host' =
                                [host EXCEPT
                                   !.op = "updateParticles",
                                   !.empty = FALSE,
                                   !.raf =
                                     IF CanvasCompletion(outs) = "returned"
                                       THEN @ ELSE @ - 1]
  /\ UNCHANGED <<variant, map, canvas, props, windData, recycled, marked,
                 deadline, gen, scan, gpu, spawn>>

\* resizeCanvas, the window's resize listener: the population is emptied and
\* the field regenerated from mapBoundsRef.current.
CanvasResizeCanvas ==
  /\ variant = "canvas"
  /\ host.pc = "mounted"
  /\ particles' = <<>>
  /\ windData' = generateMockWindData(host.bounds, ModelDensity)
  /\ UNCHANGED <<variant, map, canvas, props, outcome, recycled, marked,
                 deadline, frame, gen, scan, gpu, spawn, host>>

\* Unmount: the cleanups of the three effects.  The map is removed, the
\* listeners are taken off, the canvas is detached and the frame named by
\* animationRef.current is cancelled.
CanvasUnmount ==
  /\ variant = "canvas"
  /\ host.pc = "mounted"
  /\ map' = [map EXCEPT !.present = FALSE, !.handlers = FALSE]
  /\ host' = [host EXCEPT !.pc = "unmounted", !.canvasRef = FALSE,
                          !.raf = IF host.ref /\ @ > 0 THEN @ - 1 ELSE @,
                          !.ref = FALSE]
  /\ UNCHANGED <<variant, canvas, props, windData, particles, outcome,
                 recycled, marked, deadline, frame, gen, scan, gpu, spawn>>

CanvasLifeNext ==
  \/ CanvasOnLoad
  \/ CanvasOnMoveEnd
  \/ CanvasAnimateParticles
  \/ CanvasResizeCanvas
  \/ CanvasUnmount

SpecCanvasLife == CanvasLifeInit /\ [][CanvasLifeNext]_vars

\* C15: the bounds updateMapBounds stores lie inside the region:
\* 92 <= west <= east <= 141 and -11 <= south <= north <= 28.5.
C15_StoredBoundsInsideRegion ==
  (variant = "canvas" /\ host.pc = "mounted") =>
    /\ SEA_WEST <= host.bounds.west
    /\ host.bounds.west <= host.bounds.east
    /\ host.bounds.east <= SEA_EAST
    /\ SEA_SOUTH <= host.bounds.south
    /\ host.bounds.south <= host.bounds.north
    /\ 2 * host.bounds.north <= SEA_NORTH_X2

\* C19: every moveend or zoomend event of the map empties the population and
\* leaves the field of the newly clamped bounds, in the step of the event.
C19_ResetOnEveryEvent ==
  [][(variant = "canvas" /\ host.pc = "mounted"
        /\ host'.events = host.events + 1) =>
       /\ particles' = <<>>
       /\ windData' =
            generateMockWindData(updateMapBounds(<<map'.west, map'.north>>),
                                 ModelDensity)]_vars

\* C24: canvas variant, a slot recycled in a frame holds either a fresh
\* particle (inside the region, its screen position the projection of its
\* coordinates) or, as the last resort, the old particle with age 0 and
\* the position, direction, speed and maxAge this frame's move left it with.
\* The slot is not removed and its age is below maxAge.
C24_LastResortKeepsSlot ==
  [][(/\ variant = "canvas"
      /\ frame' = frame + 1
      /\ map.present
      /\ Len(windData) > 0)
       => /\ Len(particles') = Len(particles)
          /\ \A i \in DOMAIN particles :
               recycled'[i] =>
                 LET old == particles[i]
                     new == particles'[i]
                 IN  /\ new.age = 0
                     /\ new.age < new.maxAge
                     /\ \/ /\ isInSoutheastAsia(new.lng, new.lat)
                           /\ new.x = new.lng - map.west
                           /\ new.y = map.north - new.lat
                        \/ /\ new.x = old.x + Cos(old.direction) * old.speed
                           /\ new.y = old.y + Sin(old.direction) * old.speed
                           /\ new.direction = old.direction
                           /\ new.speed = old.speed
                           /\ new.maxAge = old.maxAge]_vars

\* A slot after the last resort: recycled, age 0, and still outside the
\* region it left, which no fresh particle is.
C24_Witness ==
  /\ variant = "canvas"
  /\ map.present
  /\ Len(windData) > 0
  /\ \E i \in DOMAIN particles :
       /\ recycled[i]
       /\ particles[i].age = 0
       /\ ~isInSoutheastAsia(particles[i].lng, particles[i].lat)

\* C25 as claimed: canvas variant, after every updateParticles call on a
\* present map with a non-empty field, each particle's coordinates are the
\* unprojection of its screen position, (lng, lat) = unproject(x, y), on
\* every path, projection failures included.
C25_CoordinatesConsistent ==
  (/\ variant = "canvas"
   /\ frame > 0
   /\ map.present
   /\ Len(windData) > 0)
    => \A i \in DOMAIN particles :
         /\ particles[i].lng = map.west + particles[i].x
         /\ particles[i].lat = map.north - particles[i].y

\* C23: no exception of map.unproject or map.project leaves
\* createWindParticles or updateParticles: a frame callback that finds the
\* map and the canvas returns normally and has requested the next frame, with
\* as many particles as it advanced, whatever the projection did.
C23_ProjectionErrorsContained ==
  [][(/\ variant = "canvas"
      /\ frame' = frame + 1
      /\ map.present
      /\ host.canvasRef) =>
       /\ outcome' = "returned"
       /\ host'.raf > 0
       /\ Len(particles) > 0 => Len(particles') = Len(particles)]_vars

\* A frame in which the move's unproject threw: the particle was displaced
\* on the screen (its coordinates no longer match its screen position) and
\* the next frame is requested.
C23_Witness ==
  /\ variant = "canvas"
  /\ host.pc = "mounted"
  /\ host.raf > 0
  /\ outcome = "returned"
  /\ Len(particles) = 1
  /\ particles[1].age > 0
  /\ particles[1].age < particles[1].maxAge
  /\ Unproject(particles[1].x, particles[1].y).lng # particles[1].lng

-----------------------------------------------------------------------------
(* GPU variant: the wind texture of createMockWindData and its lookup *)

\* Side of the model's wind grid (the code's grid is 360 by 180 cells).
MaxWind == 4

\* Math.min(a, u) and Math.max(a, u) for a running extreme that starts at
\* Infinity or -Infinity.
MathMin(a, u) == IF a.k = "fin" THEN Fin(Min2(a.n, u)) ELSE Fin(u)
MathMax(a, u) == IF a.k = "fin" THEN Fin(Max2(a.n, u)) ELSE Fin(u)

\* Lines 524-529: the components at cell (x, y).  Columns and rows step the
\* arguments of the sines and cosines by a quarter turn, so a component is
\* -1, 0 or 1.
uComp(x, y) == Sin(y % 4) * Cos(x % 4)
vComp(x, y) == Cos(y % 4) * Sin(x % 4)

\* Math.floor((c + 1) * 127.5): the integer part of c scaled to 0..255.
IntegerPart(c) == ((c + 1) * 255) \div 2

\* Math.floor((((c + 1) * 127.5) % 1) * 255): the fraction part, scaled.
FractionPart(c) == ((((c + 1) * 255) % 2) * 255) \div 2

\* Lines 538-545: the four bytes of a texel.
WindTexel(x, y) ==
  [r |-> IntegerPart(uComp(x, y)), g |-> FractionPart(uComp(x, y)),
   b |-> IntegerPart(vComp(x, y)), a |-> FractionPart(vComp(x, y))]

\* The call right after its declarations; the bounds argument is not read.
WindStart(bounds) ==
  [pc |-> "wind", bounds |-> bounds, x |-> 0, y |-> 0, image |-> <<>>,
   uMin |-> PosInf, uMax |-> NegInf, vMin |-> PosInf, vMax |-> NegInf,
   probe |-> 0]

WindInit ==
  /\ gpu \in { WindStart(b) : b \in LayerBoundsInputs }
  /\ gen = GenIdle
  /\ scan = [pc |-> "idle"]
  /\ variant = "none"
  /\ map = [present |-> FALSE]
  /\ canvas = [width |-> 0, height |-> 0]
  /\ props = [animate |-> FALSE]
  /\ windData = <<>>
  /\ particles = <<>>
  /\ outcome = "none"
  /\ recycled = <<>>
  /\ marked = <<>>
  /\ deadline = <<>>
  /\ frame = 0
  /\ spawn = [pc |-> "idle"]
  /\ host = [pc |-> "idle"]

\* One iteration of the inner loop: the extremes are updated and the texel
\* of cell (x, y) is stored at index y * width + x.
WindCell ==
  /\ gpu.pc = "wind"
  /\ gpu.y < MaxWind
  /\ gpu' = [gpu EXCEPT
       !.uMin = MathMin(@, uComp(gpu.x, gpu.y)),
       !.uMax = MathMax(@, uComp(gpu.x, gpu.y)),
       !.vMin = MathMin(@, vComp(gpu.x, gpu.y)),
       !.vMax = MathMax(@, vComp(gpu.x, gpu.y)),
       !.image = Append(@, WindTexel(gpu.x, gpu.y)),
       !.x = IF gpu.x + 1 < MaxWind THEN gpu.x + 1 ELSE 0,
       !.y = IF gpu.x + 1 < MaxWind THEN gpu.y ELSE gpu.y + 1]
  /\ UNCHANGED <<gen, scan, partVars, spawn, host>>

\* The return after the loops.
WindReturn ==
  /\ gpu.pc = "wind"
  /\ gpu.y = MaxWind
  /\ gpu' = [gpu EXCEPT !.pc = "texture"]
  /\ UNCHANGED <<gen, scan, partVars, spawn, host>>

\* texture2D(u_wind, ...).rg at the centre of a texel: the shader reads the
\* texel of some cell; probe is its index in the image.
WindLookup ==
  /\ gpu.pc = "texture"
  /\ \E i \in 1..Len(gpu.image) : gpu' = [gpu EXCEPT !.probe = i]
  /\ UNCHANGED <<gen, scan, partVars, spawn, host>>

WindNext == WindCell \/ WindReturn \/ WindLookup

SpecWind == WindInit /\ [][WindNext]_vars

\* C21: for the texel the shader reads, mix(u_wind_min, u_wind_max, texel.rg)
\* gives back the components (u, v) of that cell, to within one step of the
\* 8-bit encoding: 255 * (min + (max - min) * channel / 255 - component) is at
\* most max - min in absolute value, for u from R and for v from G.
C21_TexelDecodesWind ==
  (gpu.pc = "texture" /\ gpu.probe # 0) =>
    LET x == (gpu.probe - 1) % MaxWind
        y == (gpu.probe - 1) \div MaxWind
        texel == gpu.image[gpu.probe]
    IN  /\ Abs(255 * gpu.uMin.n + (gpu.uMax.n - gpu.uMin.n) * texel.r
                 - 255 * uComp(x, y)) <= gpu.uMax.n - gpu.uMin.n
        /\ Abs(255 * gpu.vMin.n + (gpu.vMax.n - gpu.vMin.n) * texel.g
                 - 255 * vComp(x, y)) <= gpu.vMax.n - gpu.vMin.n

-----------------------------------------------------------------------------
(* getWindColor of mockWindData.ts *)

\* Speeds are multiples of 1 / SpeedScale, from 0 to MaxSpeed / SpeedScale.
SpeedScale == 100
MaxSpeed == 130

\* Math.round(num / den) for den > 0: the nearest integer, halves upward.
MathRound(num, den) == (2 * num + den) \div (2 * den)

\* Lines 258 and 263: the green channel of the medium and of the strong
\* band, the latter with a variant that rises with the speed.
MediumGreen(n) == MathRound(200 * SpeedScale + n * 55, SpeedScale)

StrongGreenRising(n) == MathRound(66 * SpeedScale + n * 55, SpeedScale)

StrongGreen(n) == MathRound(165 * SpeedScale - n * 165, SpeedScale)

\* getWindColor(speed) for speed = n / SpeedScale.
getWindColor(n) ==
  IF 10 * n < 3 * SpeedScale THEN <<30, 144, 255>>
  ELSE IF 10 * n < 6 * SpeedScale THEN <<255, MediumGreen(n), 0>>
  ELSE <<255, StrongGreen(n), 0>>

ColorInit ==
  /\ host = [pc |-> "color", speed |-> 0, color |-> getWindColor(0)]
  /\ gen = GenIdle
  /\ scan = [pc |-> "idle"]
  /\ gpu = [pc |-> "idle"]
  /\ spawn = [pc |-> "idle"]
  /\ variant = "none"
  /\ map = [present |-> FALSE]
  /\ canvas = [width |-> 0, height |-> 0]
  /\ props = [animate |-> FALSE]
  /\ windData = <<>>
  /\ particles = <<>>
  /\ outcome = "none"
  /\ recycled = <<>>
  /\ marked = <<>>
  /\ deadline = <<>>
  /\ frame = 0

\* A call getWindColor(speed).
ColorCall ==
  /\ host.pc = "color"
  /\ \E n \in 0..MaxSpeed :
       host' = [pc |-> "color", speed |-> n, color |-> getWindColor(n)]
  /\ UNCHANGED <<gen, scan, partVars, gpu, spawn>>

SpecColor == ColorInit /\ [][ColorCall]_vars

\* C22: getWindColor(s) is (30,144,255) below 0.3, (255, round(200 + 55 s), 0)
\* from 0.3 and below 0.6, and (255, round(165 - 165 s), 0) from 0.6 on, where
\* g = round(v) means g <= v + 1/2 < g + 1; and of two calls in the strong
\* band the one with the higher speed has no higher green channel.
C22_WindColorBands ==
  /\ [](host.pc = "color" =>
          LET n == host.speed
              g == host.color[2]
              v2 == IF 10 * n < 6 * SpeedScale
                      THEN 2 * (200 * SpeedScale + 55 * n) + SpeedScale
                      ELSE 2 * (165 * SpeedScale - 165 * n) + SpeedScale
          IN  IF 10 * n < 3 * SpeedScale
                THEN host.color = <<30, 144, 255>>
                ELSE /\ host.color[1] = 255
                     /\ host.color[3] = 0
                     /\ 2 * SpeedScale * g <= v2
                     /\ v2 < 2 * SpeedScale * (g + 1))
  /\ [][(/\ host.pc = "color"
         /\ 10 * host.speed >= 6 * SpeedScale
         /\ host'.speed >= host.speed) =>
          host'.color[2] <= host.color[2]]_vars

\* A call with speed 0.9 right after a call with speed 0.6 would be an action;
\* as a state: the call with speed 0.9, whose green channel, 17, is below the
\* 66 of speed 0.6.
C22_Witness ==
  /\ host.pc = "color"
  /\ 10 * host.speed = 9 * SpeedScale
  /\ host.color = <<255, 17, 0>>
  /\ getWindColor((6 * SpeedScale) \div 10)[2] = 66

-----------------------------------------------------------------------------
(* Frames without end: the canvas and the instanced layer with the animation
   on, a non-empty field and a non-empty population *)

\* A canvas particle as every later test sees it.  An age at or beyond maxAge
\* passes `age >= maxAge` whatever its value, and a screen coordinate that is
\* beyond the margin and moving away fails the screen test whatever its
\* value: both are kept at the first such value, so that a particle that is
\* never recycled takes finitely many states.
CanvasHorizon(p) ==
  [p EXCEPT
     !.age = Min2(@, p.maxAge),
     !.x = IF Cos(p.direction) > 0
             THEN Min2(@, canvas.width + screenMargin + 1)
             ELSE IF Cos(p.direction) < 0
                    THEN Max2(@, -screenMargin - 1) ELSE @,
     !.y = IF Sin(p.direction) > 0
             THEN Min2(@, canvas.height + screenMargin + 1)
             ELSE IF Sin(p.direction) < 0
                    THEN Max2(@, -screenMargin - 1) ELSE @]

LiveInit ==
  \/ /\ CanvasInit
     /\ map.present
     /\ Len(windData) > 0
     /\ Len(particles) > 0
  \/ /\ LayerInit
     /\ props.animate
     /\ Len(particles) > 0

\* animateParticles of map.tsx on a present map: updateParticles and the
\* request of the next frame.  The frame count is kept modulo 2.
LiveCanvasFrame ==
  /\ variant = "canvas"
  /\ frame' = (frame + 1) % 2
  /\ outcome' = "returned"
  /\ LET retry == { Outcome(n, TRUE, FALSE) : n \in CanvasRetryParticles }
         fallback == { Outcome(n, TRUE, FALSE) : n \in CanvasFallbackParticles }
     IN  \E outs \in Choices([i \in 1..Len(particles) |->
                      CanvasOutcomes(particles[i], retry, fallback)]) :
           /\ particles' = [i \in 1..Len(outs) |-> CanvasHorizon(outs[i].p)]
           /\ recycled' = Flags(outs, "recycled")
           /\ marked' = Flags(outs, "marked")
  /\ UNCHANGED <<variant, map, canvas, props, windData, deadline, gen, scan,
                 gpu, spawn, host>>

\* animate() of the layer with props.animate on: updateParticles, setState
\* and the request of the next frame.
LiveLayerFrame ==
  /\ variant = "layer"
  /\ frame' = (frame + 1) % 2
  /\ outcome' = "returned"
  /\ \E outs \in Choices([i \in 1..Len(particles) |->
                    LayerOutcomes(particles[i], props.bounds, windData)]) :
       /\ particles' = Populate(outs)
       /\ recycled' = Flags(outs, "recycled")
       /\ marked' = Flags(outs, "marked")
  /\ UNCHANGED <<variant, map, canvas, props, windData, deadline, gen, scan,
                 gpu, spawn, host>>

LiveNext == LiveCanvasFrame \/ LiveLayerFrame

\* The step that counts a frame: every step of LiveNext is one, and LiveNext
\* is enabled in every state.
LiveTick == frame' = (frame + 1) % 2

\* The browser keeps delivering the requested frames: weak fairness of the
\* frame callbacks, stated on the frame count.
SpecLive == LiveInit /\ [][LiveNext]_vars /\ WF_frame(LiveTick)

\* C27 as claimed: while frames keep coming, with the animation on and a
\* non-empty field, every particle slot is recycled again and again, in the
\* canvas variant whatever the projection does and in the instanced layer.
C27_RecycledForever ==
  \A i \in 1..MaxParticles : []<>(i \in DOMAIN particles => recycled[i])

-----------------------------------------------------------------------------
(* The three frame loops: canvas component, instanced layer, GPU layer *)

LoopsInit == CanvasLifeInit \/ LayerLifeInit \/ GpuInit

LoopsNext == CanvasLifeNext \/ LayerLifeNext \/ GpuNext

SpecLoops == LoopsInit /\ [][LoopsNext]_vars

\* C30: for each loop at most one frame callback is scheduled at any time,
\* after any interleaving of load events, start and stop calls, property
\* updates, direct writes of animate, frame callbacks and teardown.
C30_OneCallbackPerLoop ==
  /\ variant \in {"canvas", "layer"} => host.raf <= 1
  /\ gpu.pc # "idle" => gpu.scheduled <= 1

\* A GPU layer after property updates and passes, with the animation on and
\* its one callback scheduled.
C30_Witness ==
  /\ gpu.pc = "ready"
  /\ gpu.updates = MaxUpdates
  /\ gpu.passes > 1
  /\ gpu.animate
  /\ gpu.animationFrame = "pending"
  /\ gpu.scheduled = 1

====
